---- MODULE Spec2Model ----
(***************************************************************************)
(* ARDS patient dashboard (src/app/ards_dashboard.py).                     *)
(*                                                                         *)
(* The Streamlit script is re-run top to bottom on every interaction:      *)
(* load_data() (memoized by st.cache_data) followed by the patient         *)
(* selection, the sidebar and create_patient_timeline().  One action of    *)
(* this module is one run of the script.                                   *)
(*                                                                         *)
(* Numbers are pandas/NumPy float64 values, modelled as exact rationals    *)
(* together with the three IEEE specials the code can produce:             *)
(*   [k |-> "num", n, d]  the rational n/d in lowest terms, d > 0          *)
(*   [k |-> "nan"]        NaN (a missing cell)                             *)
(*   [k |-> "inf"], [k |-> "ninf"]   +infinity, -infinity                  *)
(* Timestamps are whole hours; NaT is the missing timestamp.               *)
(***************************************************************************)
EXTENDS Integers, Sequences, FiniteSets, TLC

VARIABLES ts_file, static_file, cache, selected_hosp_id, patient_ts, fig,
          metrics, messages, outcome

vars == <<ts_file, static_file, cache, selected_hosp_id, patient_ts, fig,
          metrics, messages, outcome>>

-----------------------------------------------------------------------------
(* float64 arithmetic                                                      *)

Abs(i) == IF i < 0 THEN -i ELSE i

RECURSIVE GCD(_, _)
GCD(a, b) == IF b = 0 THEN a ELSE GCD(b, a % b)

NaN == [k |-> "nan", n |-> 0, d |-> 1]
Inf == [k |-> "inf", n |-> 1, d |-> 1]
NegInf == [k |-> "ninf", n |-> -1, d |-> 1]

\* The float n/d (d # 0), in lowest terms with a positive denominator.
Num(n, d) ==
    LET g == GCD(Abs(n), Abs(d))
        s == IF d < 0 THEN -1 ELSE 1
    IN  [k |-> "num", n |-> (s * n) \div g, d |-> (s * d) \div g]

IsNaN(x) == x.k = "nan"
NotNa(x) == x.k # "nan"

\* Sign of a non-NaN float: -1, 0 or 1.
Sign(x) ==
    CASE x.k = "inf" -> 1
      [] x.k = "ninf" -> -1
      [] OTHER -> IF x.n > 0 THEN 1 ELSE IF x.n < 0 THEN -1 ELSE 0

\* x > y on float64: FALSE whenever an operand is NaN.
FGt(x, y) ==
    /\ NotNa(x)
    /\ NotNa(y)
    /\ CASE x.k = "ninf" -> FALSE
         [] y.k = "inf" -> FALSE
         [] x.k = "inf" -> TRUE
         [] y.k = "ninf" -> TRUE
         [] OTHER -> x.n * y.d > y.n * x.d

\* x / y as pandas divides two float64 columns: a zero denominator raises
\* nothing, it gives +-inf (or NaN for 0/0); NaN propagates.
FDiv(x, y) ==
    CASE IsNaN(x) \/ IsNaN(y) -> NaN
      [] x.k # "num" /\ y.k # "num" -> NaN
      [] y.k # "num" -> Num(0, 1)
      [] y.n = 0 ->
            IF Sign(x) > 0 THEN Inf ELSE IF Sign(x) < 0 THEN NegInf ELSE NaN
      [] x.k # "num" ->
            IF Sign(x) * Sign(y) > 0 THEN Inf ELSE NegInf
      [] OTHER -> Num(x.n * y.d, x.d * y.n)

\* x * y on float64.
FMul(x, y) ==
    CASE IsNaN(x) \/ IsNaN(y) -> NaN
      [] x.k = "num" /\ y.k = "num" -> Num(x.n * y.n, x.d * y.d)
      [] Sign(x) * Sign(y) = 0 -> NaN
      [] Sign(x) * Sign(y) > 0 -> Inf
      [] OTHER -> NegInf

\* Series.fillna(other): a NaN cell takes the other column's cell.
FillNa(x, y) == IF IsNaN(x) THEN y ELSE x

\* Python's builtin max(s[1], s[2], ...): a later item replaces the running
\* maximum only when `item > maximum` is true.
RECURSIVE PyMaxFrom(_, _, _)
PyMaxFrom(s, i, cur) ==
    IF i > Len(s) THEN cur
    ELSE PyMaxFrom(s, i + 1, IF FGt(s[i], cur) THEN s[i] ELSE cur)

PyMax(s) == PyMaxFrom(s, 2, s[1])

\* The non-NaN cells of a column, in order.
RECURSIVE DropNa(_)
DropNa(s) ==
    IF s = <<>> THEN <<>>
    ELSE IF IsNaN(Head(s)) THEN DropNa(Tail(s))
    ELSE <<Head(s)>> \o DropNa(Tail(s))

\* Series.max(): the largest non-NaN cell, NaN when there is none.
SeriesMax(s) == IF DropNa(s) = <<>> THEN NaN ELSE PyMax(DropNa(s))

RECURSIVE PyMinFrom(_, _, _)
PyMinFrom(s, i, cur) ==
    IF i > Len(s) THEN cur
    ELSE PyMinFrom(s, i + 1, IF FGt(cur, s[i]) THEN s[i] ELSE cur)

\* Series.min(): the smallest non-NaN cell, NaN when there is none.
SeriesMin(s) ==
    IF DropNa(s) = <<>> THEN NaN ELSE PyMinFrom(DropNa(s), 2, DropNa(s)[1])

-----------------------------------------------------------------------------
(* timestamps                                                              *)

NaT == [nat |-> TRUE, h |-> 0]
Ts(h) == [nat |-> FALSE, h |-> h]

\* (a - b).total_seconds() / 3600; NaT on either side gives NaN.
HoursBetween(a, b) == IF a.nat \/ b.nat THEN NaN ELSE Num(a.h - b.h, 1)

-----------------------------------------------------------------------------
(* cells of an untyped column: missing, a number, or text                  *)

Null == [t |-> "null", v |-> NaN, s |-> <<>>]
NumCell(n, d) == [t |-> "num", v |-> Num(n, d), s |-> <<>>]
TextCell(s) == [t |-> "text", v |-> NaN, s |-> s]

Digits == <<"0", "1", "2", "3", "4", "5", "6", "7", "8", "9">>
IsDigit(c) == \E i \in 1..10 : Digits[i] = c
DigitVal(c) == (CHOOSE i \in 1..10 : Digits[i] = c) - 1

RECURSIVE ParseDigits(_, _)
ParseDigits(s, acc) ==
    IF s = <<>> THEN acc ELSE ParseDigits(Tail(s), 10 * acc + DigitVal(Head(s)))

\* pd.to_numeric(column, errors='coerce') on one cell: a number stays, a
\* missing cell is NaN, text parses as a number or is coerced to NaN.
ToNumeric(c) ==
    CASE c.t = "null" -> NaN
      [] c.t = "num" -> c.v
      [] OTHER ->
            IF c.s # <<>> /\ \A i \in 1..Len(c.s) : IsDigit(c.s[i])
            THEN Num(ParseDigits(c.s, 0), 1)
            ELSE NaN

Upper == <<"P", "R", "O", "N", "E", "W", "A", "L", "K", "I", "G">>
LowerOf == <<"p", "r", "o", "n", "e", "w", "a", "l", "k", "i", "g">>

\* str.lower() on one character.
LowerChar(c) ==
    IF \E i \in 1..Len(Upper) : Upper[i] = c
    THEN LowerOf[CHOOSE i \in 1..Len(Upper) : Upper[i] = c]
    ELSE c

StrLower(s) == [i \in 1..Len(s) |-> LowerChar(s[i])]

RECURSIVE NatDigits(_)
NatDigits(n) ==
    IF n < 10 THEN <<Digits[n + 1]>>
    ELSE NatDigits(n \div 10) \o <<Digits[(n % 10) + 1]>>

\* astype(str) on one cell of an object column: text stays, an integer
\* prints its digits, any other number and a missing cell print as
\* something that is not a word ("1.5", "nan", "None").
AsTypeStr(c) ==
    CASE c.t = "text" -> c.s
      [] c.t = "num" /\ c.v.k = "num" /\ c.v.d = 1 /\ c.v.n >= 0 -> NatDigits(c.v.n)
      [] c.t = "num" /\ c.v.k = "num" /\ c.v.d = 1 -> <<"-">> \o NatDigits(-c.v.n)
      [] OTHER -> <<"n", "a", "n">>

-----------------------------------------------------------------------------
(* tables                                                                  *)

\* Python's None standing for a table that was not produced.
NoneTable == [none |-> TRUE, rows |-> <<>>]
Table(rows) == [none |-> FALSE, rows |-> rows]

\* Boolean indexing of a frame is SelectSeq: the rows that satisfy the test,
\* in order.

\* The set of identifiers a frame holds (Series.unique()).
UniqueIds(rows) == {rows[i].hospitalization_id : i \in 1..Len(rows)}

TS_NAME == "time_series_analysis_table.parquet"
STATIC_NAME == "static_analysis_table.parquet"

\* One st.error / st.warning element.  lineno is the line of load_data that
\* the traceback printed by st.code(traceback.format_exc()) points at, 0 when
\* no traceback is shown.
Message(level, text, path, lineno) ==
    [level |-> level, text |-> text, path |-> path, lineno |-> lineno]

-----------------------------------------------------------------------------
(* load_data                                                               *)

\* ards_patients: the identifiers having a row with a non-null onset.
ArdsPatientsBroken(ts_rows) == UniqueIds(ts_rows)

ArdsPatients(ts_rows) ==
    UniqueIds(SelectSeq(ts_rows, LAMBDA r : ~r.ARDS_onset_dttm.nat))

\* The two offsets load_data adds to a row; hours_from_ards_onset is
\* assigned only where the row's own onset is non-null and stays NaN
\* elsewhere.
WithOffsets(r) ==
    [hours_from_icu_admission |-> HoursBetween(r.recorded_dttm, r.icu_in_time),
     hours_from_ards_onset |->
        IF r.ARDS_onset_dttm.nat THEN NaN
        ELSE HoursBetween(r.recorded_dttm, r.ARDS_onset_dttm)] @@ r

\* The value load_data returns together with the elements it shows.
LoadFailed(msg) == [ts |-> NoneTable, static |-> NoneTable, errors |-> <<msg>>]

LoadDataPartial(tsf, stf) ==
    CASE tsf.status = "missing" ->
            LoadFailed(Message("error", "Time series file not found at", TS_NAME, 0))
      [] stf.status = "missing" ->
            [ts |-> Table(tsf.rows), static |-> NoneTable,
             errors |-> <<Message("error", "Static file not found at", STATIC_NAME, 0)>>]
      [] tsf.status = "corrupt" ->
            LoadFailed(Message("error", "Error loading data", "", 269))
      [] stf.status = "corrupt" ->
            [ts |-> Table(tsf.rows), static |-> NoneTable,
             errors |-> <<Message("error", "Error loading data", "", 270)>>]
      [] OTHER ->
            LET ards_patients == ArdsPatients(tsf.rows)
                InCohort(r) == r.hospitalization_id \in ards_patients
                ts_data_ards == SelectSeq(tsf.rows, InCohort)
                static_data_ards == SelectSeq(stf.rows, InCohort)
            IN  [ts |-> Table([i \in 1..Len(ts_data_ards) |->
                                  WithOffsets(ts_data_ards[i])]),
                 static |-> Table(static_data_ards),
                 errors |-> <<>>]

load_data(tsf, stf) ==
    CASE tsf.status = "missing" ->
            LoadFailed(Message("error", "Time series file not found at", TS_NAME, 0))
      [] stf.status = "missing" ->
            LoadFailed(Message("error", "Static file not found at", STATIC_NAME, 0))
      [] tsf.status = "corrupt" ->
            LoadFailed(Message("error", "Error loading data", "", 269))
      [] stf.status = "corrupt" ->
            LoadFailed(Message("error", "Error loading data", "", 270))
      [] OTHER ->
            LET ards_patients == ArdsPatients(tsf.rows)
                InCohort(r) == r.hospitalization_id \in ards_patients
                ts_data_ards == SelectSeq(tsf.rows, InCohort)
                static_data_ards == SelectSeq(stf.rows, InCohort)
            IN  [ts |-> Table([i \in 1..Len(ts_data_ards) |->
                                  WithOffsets(ts_data_ards[i])]),
                 static |-> Table(static_data_ards),
                 errors |-> <<>>]

-----------------------------------------------------------------------------
(* create_patient_timeline and add_intervention_markers                    *)

\* Bounds of the generated inputs.
MaxRows == 3
MaxChartRows == 2
MaxPatients == 2

HOURS_PER_DAY == 24
PRONE_HEIGHT == 300
NMB_HEIGHT == 350
MILD_MODERATE == 235
MODERATE_SEVERE == 148
AXIS_FLOOR_DAYS == 7
RATIO_AXIS_FLOOR == 500

Zero == Num(0, 1)
One == Num(1, 1)

\* Columns of a frame as sequences of cells.
DaysColumn(rows) == [i \in 1..Len(rows) |-> rows[i].days_from_admission]
RatioColumn(rows) == [i \in 1..Len(rows) |-> rows[i].respiratory_ratio]
PeepColumn(rows) == [i \in 1..Len(rows) |-> ToNumeric(rows[i].peep_set)]

\* respiratory_ratio: P/F where it is not NaN, else S/F.
RespiratoryRatioBlended(pf, sf) ==
    IF NotNa(pf) /\ NotNa(sf) /\ pf.k = "num" /\ sf.k = "num"
    THEN Num(pf.n * sf.d + sf.n * pf.d, 2 * pf.d * sf.d)
    ELSE FillNa(pf, sf)

RespiratoryRatio(pf, sf) == FillNa(pf, sf)

\* The columns create_patient_timeline adds to a row.
WithRatios(r) ==
    LET pf == FDiv(ToNumeric(r.pao2), ToNumeric(r.fio2_set))
        sf == FDiv(ToNumeric(r.spo2), ToNumeric(r.fio2_set))
    IN  [days_from_admission |-> FDiv(r.hours_from_icu_admission, Num(HOURS_PER_DAY, 1)),
         pf_ratio |-> pf,
         sf_ratio |-> sf,
         respiratory_ratio |-> RespiratoryRatio(pf, sf)] @@ r

\* A row's prone_position_flag.
IsProneNumericOnly(c) == ToNumeric(c) = One

IsProne(c) ==
    LET numeric_prone == ToNumeric(c) = One
        string_prone == StrLower(AsTypeStr(c)) = <<"p", "r", "o", "n", "e">>
    IN  numeric_prone \/ string_prone

\* (patient_ts[nmb_cols] > 0).any(axis=1) on one row.
NmbCols == <<"cisatracurium_dose", "vecuronium_dose", "rocuronium_dose",
             "atracurium_dose", "pancuronium_dose">>

IsNmbAllDoses(r) == \A i \in 1..Len(NmbCols) : FGt(r[NmbCols[i]], Zero)

IsNmb(r) == \E i \in 1..Len(NmbCols) : FGt(r[NmbCols[i]], Zero)

\* nmb_hours, line 189.
NmbHours(rows) == Len(SelectSeq(rows, IsNmb))

VLine(x, label) == [x |-> x, label |-> label]
Point(x, y) == [x |-> x, y |-> y]

\* The vertical lines and point traces add_intervention_markers adds for
\* rows that already carry days_from_admission.
OnsetLines(rows) ==
    LET with_onset == SelectSeq(rows, LAMBDA r : NotNa(r.hours_from_ards_onset))
    IN  IF with_onset # <<>>
        THEN <<VLine(with_onset[1].days_from_admission, "ARDS Onset")>>
        ELSE <<>>

ProneTrace(rows) ==
    LET prone_events == SelectSeq(rows, LAMBDA r : IsProne(r.prone_flag))
    IN  [i \in 1..Len(prone_events) |->
            Point(prone_events[i].days_from_admission, Num(PRONE_HEIGHT, 1))]

NmbTrace(rows) ==
    LET nmb_events == SelectSeq(rows, IsNmb)
    IN  [i \in 1..Len(nmb_events) |->
            Point(nmb_events[i].days_from_admission, Num(NMB_HEIGHT, 1))]

TrachLines(rows) ==
    LET trach_events == SelectSeq(rows, LAMBDA r : ToNumeric(r.new_tracheostomy) = One)
    IN  IF trach_events # <<>>
        THEN <<VLine(trach_events[1].days_from_admission, "Tracheostomy")>>
        ELSE <<>>

\* hasattr(x, 'total_seconds') for the summary's discharge_datetime, which
\* is a pandas Timestamp or NaT: Timestamp (a datetime) has no such
\* attribute, NaT (which answers for Timedelta too) has it.
HasTotalSeconds(discharge) == discharge.nat

\* icu_discharge_day, lines 116-119.  The difference of line 116 is taken
\* only when the hasattr test passes, and is then NaT - Timestamp, whose
\* total_seconds() is NaN; otherwise the value is None and the summary's
\* icu_los_days replaces it.
IcuDischargeDay(patient_static, rows) ==
    IF HasTotalSeconds(patient_static.discharge_datetime)
    THEN FDiv(HoursBetween(patient_static.discharge_datetime, rows[1].icu_in_time),
              Num(HOURS_PER_DAY, 1))
    ELSE patient_static.icu_los_days

\* `if icu_discharge_day and icu_discharge_day > 0`: NaN is truthy and not
\* greater than 0, 0.0 is falsy.
DischargeLines(icu_discharge_day) ==
    IF icu_discharge_day # Zero /\ FGt(icu_discharge_day, Zero)
    THEN <<VLine(icu_discharge_day, "ICU Discharge")>>
    ELSE <<>>

\* The rows whose days_from_admission bound the time axis, line 138.
AxisRowsRatioOnly(rows) ==
    SelectSeq(rows, LAMBDA r : NotNa(r.respiratory_ratio) /\ NotNa(r.days_from_admission))

AxisRows(rows) == rows

XRangeHi(rows, icu_discharge_day) ==
    PyMax(<<SeriesMax(DaysColumn(AxisRows(rows))),
            icu_discharge_day,
            Num(AXIS_FLOOR_DAYS, 1)>>)

YRangeHi(rows) ==
    LET ratios == RatioColumn(rows)
    IN  IF DropNa(ratios) # <<>>
        THEN PyMax(<<Num(RATIO_AXIS_FLOOR, 1), FMul(SeriesMax(ratios), Num(11, 10))>>)
        ELSE Num(RATIO_AXIS_FLOOR, 1)

NoFig ==
    [drawn |-> FALSE, ratio_series |-> <<>>, peep_series |-> <<>>, vlines |-> <<>>,
     hlines |-> <<>>, prone_markers |-> <<>>, nmb_markers |-> <<>>,
     icu_discharge_day |-> NaN, xrange_hi |-> NaN, yrange_hi |-> NaN]

NoMetrics ==
    [shown |-> FALSE, icu_days |-> NaN, min_ratio |-> NaN, max_peep |-> NaN,
     nmb_hours |-> 0]

\* create_patient_timeline(patient_ts, patient_static): the frame after the
\* in-place column assignments, the figure and the four metric cards.
create_patient_timeline(sorted_rows, patient_static) ==
    LET rows == [i \in 1..Len(sorted_rows) |-> WithRatios(sorted_rows[i])]
        ratio_data == SelectSeq(rows, LAMBDA r :
                          NotNa(r.respiratory_ratio) /\ NotNa(r.days_from_admission))
        peep_data == SelectSeq(rows, LAMBDA r :
                          /\ r.peep_set.t # "null"
                          /\ NotNa(r.days_from_admission)
                          /\ NotNa(ToNumeric(r.peep_set)))
        icu_discharge_day == IcuDischargeDay(patient_static, rows)
        ratios == RatioColumn(rows)
    IN  [patient_ts |-> rows,
         fig |->
            [drawn |-> TRUE,
             ratio_series |-> [i \in 1..Len(ratio_data) |->
                 Point(ratio_data[i].days_from_admission, ratio_data[i].respiratory_ratio)],
             peep_series |-> [i \in 1..Len(peep_data) |->
                 Point(peep_data[i].days_from_admission, ToNumeric(peep_data[i].peep_set))],
             vlines |-> OnsetLines(rows) \o TrachLines(rows)
                           \o DischargeLines(icu_discharge_day),
             hlines |-> <<Num(MILD_MODERATE, 1), Num(MODERATE_SEVERE, 1)>>,
             prone_markers |-> ProneTrace(rows),
             nmb_markers |-> NmbTrace(rows),
             icu_discharge_day |-> icu_discharge_day,
             xrange_hi |-> XRangeHi(rows, icu_discharge_day),
             yrange_hi |-> YRangeHi(rows)],
         metrics |->
            [shown |-> TRUE,
             icu_days |-> patient_static.icu_los_days,
             min_ratio |-> IF DropNa(ratios) # <<>> THEN SeriesMin(ratios) ELSE Zero,
             max_peep |-> IF peep_data # <<>>
                          THEN SeriesMax(PeepColumn(peep_data))
                          ELSE Zero,
             nmb_hours |-> NmbHours(rows)]]

-----------------------------------------------------------------------------
(* the script, lines 303-389                                               *)

\* What st.selectbox returns when it has no option.
NoSelection == 0

\* hosp_ids, line 312.
HospIds(c) == UniqueIds(c.static.rows)

\* The selectbox shows its first option until the user picks another.
DefaultChoice(c) ==
    IF c.ts.none \/ c.static.none \/ HospIds(c) = {} THEN NoSelection
    ELSE CHOOSE h \in HospIds(c) : \A g \in HospIds(c) : h <= g

RowsOf(c, h) == SelectSeq(c.ts.rows, LAMBDA r : r.hospitalization_id = h)

\* sort_values('recorded_dttm') uses an unstable sort: every order of the
\* rows that is ascending in recorded_dttm is a possible result.
SortedOrders(rows) ==
    {p \in Permutations(1..Len(rows)) :
        \A i, j \in 1..Len(rows) :
            i < j => rows[p[i]].recorded_dttm.h <= rows[p[j]].recorded_dttm.h}

Orders(c, h) ==
    IF c.ts.none \/ c.static.none THEN {<<>>} ELSE SortedOrders(RowsOf(c, h))

Rendered(sel, rows, f, m, msgs, out) ==
    [selected_hosp_id |-> sel, patient_ts |-> rows, fig |-> f, metrics |-> m,
     messages |-> msgs, outcome |-> out]

\* One run of the script body below `ts_data, static_data = load_data()`,
\* with the selectbox at h and the sort returning `order`.
RunScript(c, h, order) ==
    IF c.ts.none \/ c.static.none
    THEN Rendered(NoSelection, <<>>, NoFig, NoMetrics,
                  c.errors \o <<Message("error", "Failed to load data", "", 0)>>,
                  "failed")
    ELSE IF h = NoSelection
    THEN \* line 322: .iloc[0] on an empty frame raises IndexError
         Rendered(NoSelection, <<>>, NoFig, NoMetrics,
                  c.errors \o <<Message("exception", "IndexError", "", 322)>>,
                  "exception")
    ELSE
      LET patient_static == SelectSeq(c.static.rows,
                                   LAMBDA r : r.hospitalization_id = h)[1]
          mine == RowsOf(c, h)
          sorted_rows == [i \in 1..Len(mine) |-> mine[order[i]]]
          has_ards == \E i \in 1..Len(sorted_rows) : ~sorted_rows[i].ARDS_onset_dttm.nat
      IN  IF has_ards /\ sorted_rows[1].ARDS_onset_dttm.nat
          THEN \* line 334: NaT.strftime raises ValueError
               Rendered(h, sorted_rows, NoFig, NoMetrics,
                        c.errors \o <<Message("exception", "ValueError", "", 334)>>,
                        "exception")
          ELSE IF Len(sorted_rows) = 0
          THEN Rendered(h, sorted_rows, NoFig, NoMetrics,
                        c.errors \o <<Message("warning",
                            "No time series data available for this patient.", "", 0)>>,
                        "warning")
          ELSE LET t == create_patient_timeline(sorted_rows, patient_static)
               IN  Rendered(h, t.patient_ts, t.fig, t.metrics, c.errors, "timeline")

Show(r) ==
    /\ selected_hosp_id' = r.selected_hosp_id
    /\ patient_ts' = r.patient_ts
    /\ fig' = r.fig
    /\ metrics' = r.metrics
    /\ messages' = r.messages
    /\ outcome' = r.outcome

\* The memoized tables after a run that derived `derived` for patient h: the
\* script works on `ts_data[...].copy()`, so they are what they were.
MemoizedAliased(c, h, derived) ==
    IF derived = <<>> THEN c
    ELSE LET old == c.ts.rows
         IN  [c EXCEPT !.ts = Table([i \in 1..Len(old) |->
                                IF old[i].hospitalization_id = h
                                THEN WithRatios(old[i]) ELSE old[i]])]

Memoized(c, h, derived) == c

NoCache == [filled |-> FALSE, ts |-> NoneTable, static |-> NoneTable, errors |-> <<>>]

\* The first run of a session: load_data runs and st.cache_data keeps what
\* it returns (a failure included).
FirstRun ==
    /\ ~cache.filled
    /\ LET res == load_data(ts_file, static_file)
           c == [filled |-> TRUE, ts |-> res.ts, static |-> res.static,
                 errors |-> res.errors]
       IN  \E order \in Orders(c, DefaultChoice(c)) :
              LET r == RunScript(c, DefaultChoice(c), order)
              IN  /\ Show(r)
                  /\ cache' = Memoized(c, r.selected_hosp_id, r.patient_ts)
    /\ UNCHANGED <<ts_file, static_file>>

\* The user picks patient h: the script runs again on the memoized tables.
SelectPatient(h) ==
    /\ cache.filled
    /\ ~cache.ts.none /\ ~cache.static.none
    /\ h \in HospIds(cache)
    /\ \E order \in Orders(cache, h) :
          LET r == RunScript(cache, h, order)
          IN  /\ Show(r)
              /\ cache' = Memoized(cache, h, r.patient_ts)
    /\ UNCHANGED <<ts_file, static_file>>

\* Any interaction after a failed load: the memoized failure is returned
\* and the else branch of line 388 runs again.
RerunFailed ==
    /\ cache.filled
    /\ cache.ts.none \/ cache.static.none
    /\ Show(RunScript(cache, NoSelection, <<>>))
    /\ UNCHANGED <<ts_file, static_file, cache>>

Next ==
    \/ FirstRun
    \/ \E h \in 1..MaxPatients : SelectPatient(h)
    \/ RerunFailed

-----------------------------------------------------------------------------
(* the two sources: bounded inputs                                         *)

\* An observation of patient id recorded at hour rec of a stay that began
\* at hour 0 with onset at hour 2, on FiO2 0.5 with SpO2 95 and nothing else
\* charted.
ObsRow(id, rec) ==
    [hospitalization_id |-> id,
     recorded_dttm |-> Ts(rec),
     icu_in_time |-> Ts(0),
     ARDS_onset_dttm |-> Ts(2),
     pao2 |-> Null,
     spo2 |-> NumCell(95, 1),
     fio2_set |-> NumCell(1, 2),
     peep_set |-> NumCell(5, 1),
     cisatracurium_dose |-> NaN,
     vecuronium_dose |-> NaN,
     rocuronium_dose |-> NaN,
     atracurium_dose |-> NaN,
     pancuronium_dose |-> NaN,
     prone_flag |-> Null,
     new_tracheostomy |-> Null]

Summary(id, discharge, los) ==
    [hospitalization_id |-> id, discharge_datetime |-> discharge, icu_los_days |-> los]

\* The sequences of 1..n elements of S.
SeqsUpTo(S, n) == UNION {[1..k -> S] : k \in 1..n}

OkFile(rows) == [status |-> "ok", rows |-> rows]
BadFile(status) == [status |-> status, rows |-> <<>>]

DefaultTs == <<ObsRow(1, 0), ObsRow(1, 5)>>
DefaultStatic == <<Summary(1, Ts(72), Num(3, 1))>>

\* Readable sources holding the given tables, and the eight ways in which
\* one source or both are missing or unreadable.
Sources(ts_tables, static_tables) ==
    {[ts |-> OkFile(t), static |-> OkFile(s)] : t \in ts_tables, s \in static_tables}
    \cup
    {[ts |-> IF a = "ok" THEN OkFile(DefaultTs) ELSE BadFile(a),
      static |-> IF b = "ok" THEN OkFile(DefaultStatic) ELSE BadFile(b)] :
        a \in {"ok", "missing", "corrupt"}, b \in {"ok", "missing", "corrupt"}}

InitWith(sources) ==
    /\ \E src \in sources : ts_file = src.ts /\ static_file = src.static
    /\ cache = NoCache
    /\ selected_hosp_id = NoSelection
    /\ patient_ts = <<>>
    /\ fig = NoFig
    /\ metrics = NoMetrics
    /\ messages = <<>>
    /\ outcome = "start"

\* Cohort inputs: patients 1..MaxPatients, rows at hours 0 and 5 that
\* carry the onset timestamp or not, and the three-row example in every
\* arrival order.
ExampleHours == <<0, 2, 5>>

CohortRows ==
    {[ObsRow(id, rec) EXCEPT !.ARDS_onset_dttm = o] :
        id \in 1..MaxPatients, rec \in {0, 5}, o \in {NaT, Ts(2)}}

OnsetExampleTables ==
    {[i \in 1..3 |-> [ObsRow(1, ExampleHours[p[i]]) EXCEPT !.ARDS_onset_dttm = o[i]]] :
        p \in Permutations(1..3), o \in [1..3 -> {NaT, Ts(2)}]}

RECURSIVE Ascending(_)
Ascending(ids) ==
    IF ids = {} THEN <<>>
    ELSE LET m == CHOOSE h \in ids : \A g \in ids : h <= g
         IN  <<Summary(m, Ts(72), Num(3, 1))>> \o Ascending(ids \ {m})

\* Summary tables: every patient, every patient but the first, nobody.
CohortStatic == {Ascending(1..MaxPatients), Ascending(2..MaxPatients), <<>>}

Init == InitWith(Sources(SeqsUpTo(CohortRows, MaxRows) \cup {<<>>} \cup OnsetExampleTables,
                         CohortStatic))

Spec == Init /\ [][Next]_vars

\* Ratio inputs: one patient whose rows chart PaO2, SpO2 and FiO2 or not,
\* with FiO2 missing, zero or 0.5.
RatioRows ==
    {[ObsRow(1, rec) EXCEPT !.pao2 = p, !.spo2 = sp, !.fio2_set = f] :
        rec \in {0, 5},
        p \in {Null, NumCell(0, 1), NumCell(80, 1)},
        sp \in {Null, NumCell(95, 1)},
        f \in {Null, NumCell(0, 1), NumCell(1, 2)}}

InitRatio == InitWith(Sources(SeqsUpTo(RatioRows, MaxChartRows), {DefaultStatic}))

SpecRatio == InitRatio /\ [][Next]_vars

\* Discharge inputs: one patient with rows on day 0, 2 or 10 of a stay that
\* began at hour 0 or a day earlier, with or without a ratio, and a summary
\* whose discharge timestamp and length of stay vary.
DischargeRows ==
    {[ObsRow(1, rec) EXCEPT !.icu_in_time = Ts(adm), !.spo2 = sp] :
        rec \in {0, 48, 240}, adm \in {0, -24}, sp \in {Null, NumCell(95, 1)}}

DischargeStatic ==
    {<<Summary(1, d, los)>> :
        d \in {NaT, Ts(72), Ts(-48)},
        los \in {NaN, Num(0, 1), Num(9, 2), Num(10, 1), Num(-1, 1)}}

InitDischarge == InitWith(Sources(SeqsUpTo(DischargeRows, MaxChartRows), DischargeStatic))

SpecDischarge == InitDischarge /\ [][Next]_vars

\* Neuromuscular-blockade inputs: one patient, dose columns missing, zero,
\* negative or positive.
DoseProfiles ==
    {<<NaN, NaN, NaN, NaN, NaN>>,
     <<Num(0, 1), Num(0, 1), Num(0, 1), Num(0, 1), Num(0, 1)>>,
     <<Num(5, 1), NaN, NaN, NaN, NaN>>,
     <<NaN, NaN, NaN, NaN, Num(1, 2)>>,
     <<Num(0, 1), Num(5, 1), NaN, NaN, NaN>>,
     <<NaN, NaN, Num(3, 1), Num(2, 1), NaN>>,
     <<Num(-1, 1), NaN, NaN, NaN, NaN>>,
     <<Num(-1, 1), Num(0, 1), NaN, Num(0, 1), Num(-1, 1)>>,
     <<Num(1, 1), Num(1, 1), Num(1, 1), Num(1, 1), Num(1, 1)>>}

NmbRows ==
    {[ObsRow(1, rec) EXCEPT !.cisatracurium_dose = ds[1], !.vecuronium_dose = ds[2],
                            !.rocuronium_dose = ds[3], !.atracurium_dose = ds[4],
                            !.pancuronium_dose = ds[5]] :
        rec \in {0, 5}, ds \in DoseProfiles}

InitNmb == InitWith(Sources(SeqsUpTo(NmbRows, MaxChartRows), {DefaultStatic}))

SpecNmb == InitNmb /\ [][Next]_vars

\* Prone inputs: one patient whose indicator is missing, a number or text,
\* and the five-row example [1, "Prone", "walking", 0, "PRONE"].
ProneCells ==
    {Null, NumCell(1, 1), NumCell(0, 1), NumCell(2, 1), NumCell(3, 2),
     TextCell(<<"P", "r", "o", "n", "e">>), TextCell(<<"P", "R", "O", "N", "E">>),
     TextCell(<<"p", "r", "o", "n", "e">>), TextCell(<<"w", "a", "l", "k", "i", "n", "g">>),
     TextCell(<<"1">>), TextCell(<<"p", "r", "o", "n">>),
     TextCell(<<"p", "r", "o", "n", "e", "d">>)}

ProneRows ==
    {[ObsRow(1, rec) EXCEPT !.prone_flag = c] : rec \in {0, 5}, c \in ProneCells}

ProneExampleCells ==
    <<NumCell(1, 1), TextCell(<<"P", "r", "o", "n", "e">>),
      TextCell(<<"w", "a", "l", "k", "i", "n", "g">>), NumCell(0, 1),
      TextCell(<<"P", "R", "O", "N", "E">>)>>

ProneExampleTable ==
    [i \in 1..5 |-> [ObsRow(1, i) EXCEPT !.prone_flag = ProneExampleCells[i]]]

InitProne ==
    InitWith(Sources(SeqsUpTo(ProneRows, MaxChartRows) \cup {ProneExampleTable},
                     {DefaultStatic}))

SpecProne == InitProne /\ [][Next]_vars

-----------------------------------------------------------------------------
(* properties of the cohort loader and of the session                      *)

Loaded == cache.filled /\ ~cache.ts.none /\ ~cache.static.none

SourceIds == {ts_file.rows[i].hospitalization_id : i \in 1..Len(ts_file.rows)}

\* The patients having an observation with a non-null onset in the source.
OnsetIds ==
    {h \in SourceIds :
        \E i \in 1..Len(ts_file.rows) :
            /\ ts_file.rows[i].hospitalization_id = h
            /\ ~ts_file.rows[i].ARDS_onset_dttm.nat}

CountRows(rows, h) ==
    Cardinality({i \in 1..Len(rows) : rows[i].hospitalization_id = h})

\* C8: after a successful load the observation table holds exactly the
\* patients with some non-null onset, every source row of those patients
\* (rows with a null onset included) and no other row; the summary table
\* holds exactly the summary rows of those patients; and no other patient
\* is offered or selected.
C8_CohortFilter ==
    Loaded =>
        /\ {cache.ts.rows[i].hospitalization_id : i \in 1..Len(cache.ts.rows)} = OnsetIds
        /\ \A h \in OnsetIds : CountRows(cache.ts.rows, h) = CountRows(ts_file.rows, h)
        /\ \A h \in OnsetIds :
              Cardinality({i \in 1..Len(cache.ts.rows) :
                              /\ cache.ts.rows[i].hospitalization_id = h
                              /\ cache.ts.rows[i].ARDS_onset_dttm.nat})
              = Cardinality({i \in 1..Len(ts_file.rows) :
                              /\ ts_file.rows[i].hospitalization_id = h
                              /\ ts_file.rows[i].ARDS_onset_dttm.nat})
        /\ \A i \in 1..Len(cache.static.rows) :
              cache.static.rows[i].hospitalization_id \in OnsetIds
        /\ \A h \in OnsetIds :
              CountRows(cache.static.rows, h) = CountRows(static_file.rows, h)
        /\ HospIds(cache) \subseteq OnsetIds
        /\ selected_hosp_id \in OnsetIds \cup {NoSelection}

\* A load that dropped a patient present in both sources and kept a
\* null-onset row of a cohort patient whose timeline was then drawn.
C8_Witness ==
    /\ Loaded
    /\ outcome = "timeline"
    /\ \E h \in SourceIds \ OnsetIds : CountRows(static_file.rows, h) > 0
    /\ \E i \in 1..Len(cache.ts.rows) :
          /\ cache.ts.rows[i].ARDS_onset_dttm.nat
          /\ cache.ts.rows[i].hospitalization_id = selected_hosp_id

NamedSource(m) ==
    IF m.path = TS_NAME \/ m.lineno = 269 THEN "ts"
    ELSE IF m.path = STATIC_NAME \/ m.lineno = 270 THEN "static"
    ELSE "none"

SourceFailed == ts_file.status # "ok" \/ static_file.status # "ok"

\* C10: when a source is missing or unreadable, load_data shows an error
\* naming a source that failed and yields neither table; no patient is
\* selected, nothing is derived and only error elements are shown.  In no
\* state is one table held without the other.
C10_FailedLoadYieldsNothing ==
    cache.filled =>
        /\ cache.ts.none <=> cache.static.none
        /\ SourceFailed =>
              /\ cache.ts.none /\ cache.static.none
              /\ cache.ts.rows = <<>> /\ cache.static.rows = <<>>
              /\ \E i \in 1..Len(messages) :
                    \/ NamedSource(messages[i]) = "ts" /\ ts_file.status # "ok"
                    \/ NamedSource(messages[i]) = "static" /\ static_file.status # "ok"
              /\ \A i \in 1..Len(messages) : messages[i].level = "error"
              /\ outcome = "failed"
              /\ selected_hosp_id = NoSelection
              /\ patient_ts = <<>>
              /\ ~fig.drawn /\ ~metrics.shown

\* The time-series source is readable, the summary source is not, and the
\* failure has been shown.
C10_Witness ==
    /\ cache.filled
    /\ ts_file.status = "ok"
    /\ static_file.status # "ok"
    /\ outcome = "failed"
    /\ \E i \in 1..Len(messages) : NamedSource(messages[i]) = "static"

OnsetLinesShown == SelectSeq(fig.vlines, LAMBDA v : v.label = "ARDS Onset")

\* The selected patient is the example: rows at T0, T0+2h, T0+5h of a stay
\* admitted at T0 with ARDS onset at T0+2h.
IsOnsetExample ==
    /\ Len(patient_ts) = 3
    /\ \A i \in 1..3 :
          /\ patient_ts[i].recorded_dttm = Ts(ExampleHours[i])
          /\ patient_ts[i].icu_in_time = Ts(0)
          /\ patient_ts[i].ARDS_onset_dttm \in {NaT, Ts(2)}
    /\ \E i \in 1..3 : patient_ts[i].ARDS_onset_dttm = Ts(2)

\* C4: for the example patient the ARDS-onset marker is at day 2/24; in
\* general there is one onset marker iff some row has a defined
\* hours_from_ards_onset, at the days_from_admission of the first such row.
C4_OnsetMarkerAtOnset ==
    outcome = "timeline" =>
        /\ IsOnsetExample =>
              /\ Len(OnsetLinesShown) = 1
              /\ OnsetLinesShown[1].x = Num(2, 24)
        /\ Len(OnsetLinesShown) <= 1
        /\ Len(OnsetLinesShown) = 1 <=>
              \E i \in 1..Len(patient_ts) : NotNa(patient_ts[i].hours_from_ards_onset)
        /\ \A i \in 1..Len(patient_ts) :
              (/\ NotNa(patient_ts[i].hours_from_ards_onset)
               /\ \A j \in 1..(i - 1) : IsNaN(patient_ts[j].hours_from_ards_onset))
              => OnsetLinesShown[1].x = patient_ts[i].days_from_admission

-----------------------------------------------------------------------------
(* properties of the derived timeline                                      *)

Drawn == outcome = "timeline"

\* A cell that holds a number; a cell that holds a number other than zero.
Defined(c) == c.t = "num" /\ c.v.k = "num"
NonZero(c) == Defined(c) /\ c.v.n # 0

\* x is the exact quotient of the numeric cells a and b (b non-zero).
IsQuotient(x, a, b) ==
    /\ x.k = "num"
    /\ x.n * a.v.d * b.v.n = a.v.n * b.v.d * x.d

\* The rows of patient_ts, as indices, that satisfy Test, and the k-th of
\* them in row order.
Rows(Test(_)) == {i \in 1..Len(patient_ts) : Test(patient_ts[i])}
Kth(Q, k) == CHOOSE i \in Q : Cardinality({j \in Q : j <= i}) = k

\* C1: row by row, respiratory_ratio is pao2/fio2_set when pao2 and a
\* non-zero fio2_set are defined, whatever spo2 is; otherwise it is
\* spo2/fio2_set when spo2 and a non-zero fio2_set are defined; and that
\* value is the one plotted for the row.
C1_PFWinsOverSF ==
    Drawn =>
        \A i \in 1..Len(patient_ts) :
            LET r == patient_ts[i]
            IN  /\ (Defined(r.pao2) /\ NonZero(r.fio2_set)) =>
                      /\ IsQuotient(r.respiratory_ratio, r.pao2, r.fio2_set)
                      /\ \E k \in 1..Len(fig.ratio_series) :
                            /\ fig.ratio_series[k].x = r.days_from_admission
                            /\ IsQuotient(fig.ratio_series[k].y, r.pao2, r.fio2_set)
                /\ (~Defined(r.pao2) /\ Defined(r.spo2) /\ NonZero(r.fio2_set)) =>
                      /\ IsQuotient(r.respiratory_ratio, r.spo2, r.fio2_set)
                      /\ \E k \in 1..Len(fig.ratio_series) :
                            /\ fig.ratio_series[k].x = r.days_from_admission
                            /\ IsQuotient(fig.ratio_series[k].y, r.spo2, r.fio2_set)

\* A timeline with a row charting PaO2 80 and SpO2 95 on FiO2 0.5 (P/F 160,
\* S/F 190) and a row charting SpO2 alone.
C1_Witness ==
    /\ Drawn
    /\ \E i, j \in 1..Len(patient_ts) :
          /\ Defined(patient_ts[i].pao2) /\ patient_ts[i].pao2.v.n = 80
          /\ Defined(patient_ts[i].spo2) /\ NonZero(patient_ts[i].fio2_set)
          /\ patient_ts[i].respiratory_ratio = Num(160, 1)
          /\ ~Defined(patient_ts[j].pao2) /\ Defined(patient_ts[j].spo2)
          /\ NonZero(patient_ts[j].fio2_set)
          /\ patient_ts[j].respiratory_ratio = Num(190, 1)

HasUsableFio2(r) == NonZero(r.fio2_set) /\ (Defined(r.pao2) \/ Defined(r.spo2))

\* C2: a row whose fio2_set is zero or missing (pao2 or spo2 present) has
\* pf_ratio, sf_ratio and respiratory_ratio undefined and is left out of the
\* ratio series and of the minimum-ratio statistic; the other rows keep
\* their ratios.
C2_ZeroFio2Undefined ==
    Drawn =>
        /\ \A i \in 1..Len(patient_ts) :
              LET r == patient_ts[i]
              IN  (~NonZero(r.fio2_set) /\ (Defined(r.pao2) \/ Defined(r.spo2))) =>
                      /\ IsNaN(r.pf_ratio)
                      /\ IsNaN(r.sf_ratio)
                      /\ IsNaN(r.respiratory_ratio)
        /\ Len(fig.ratio_series) = Cardinality(Rows(HasUsableFio2))
        /\ \/ /\ Rows(HasUsableFio2) = {}
              /\ metrics.min_ratio = Zero
           \/ \E i \in Rows(HasUsableFio2) :
                 metrics.min_ratio = patient_ts[i].respiratory_ratio

DischargeLinesShown == SelectSeq(fig.vlines, LAMBDA v : v.label = "ICU Discharge")

SelectedSummary ==
    SelectSeq(cache.static.rows, LAMBDA r : r.hospitalization_id = selected_hosp_id)[1]

\* C3: with a discharge timestamp, icu_discharge_day is the days between it
\* and the first sorted row's ICU admission; without one it is the
\* summary's ICU length of stay; the discharge marker is drawn at
\* icu_discharge_day exactly when that is greater than 0.
C3_DischargeDay ==
    Drawn =>
        LET st == SelectedSummary
            day == fig.icu_discharge_day
        IN  /\ ~st.discharge_datetime.nat =>
                  /\ day.k = "num"
                  /\ day.n * HOURS_PER_DAY =
                        (st.discharge_datetime.h - patient_ts[1].icu_in_time.h) * day.d
            /\ st.discharge_datetime.nat => day = st.icu_los_days
            /\ FGt(day, Zero) <=>
                  (Len(DischargeLinesShown) = 1 /\ DischargeLinesShown[1].x = day)
            /\ ~FGt(day, Zero) => DischargeLinesShown = <<>>

HasRatio(r) == NotNa(r.respiratory_ratio) /\ NotNa(r.days_from_admission)

\* v is the maximum of the floats in S.
IsMaxOf(v, S) == v \in S /\ NotNa(v) /\ \A w \in S : ~FGt(w, v)

\* C5 as stated: the time axis ends at the maximum of the latest
\* days_from_admission of the ratio series, icu_discharge_day and 7.
C5_AxisFromRatioSeries ==
    Drawn =>
        IsMaxOf(fig.xrange_hi,
                {patient_ts[i].days_from_admission : i \in Rows(HasRatio)}
                    \cup {fig.icu_discharge_day, Num(AXIS_FLOOR_DAYS, 1)})

\* C5 (amended): the time axis ends at the maximum of the latest
\* days_from_admission of all the patient's rows, with or without a ratio,
\* icu_discharge_day when it is a number, and 7.
C5_AxisFromAllRows ==
    Drawn =>
        IsMaxOf(fig.xrange_hi,
                {patient_ts[i].days_from_admission : i \in 1..Len(patient_ts)}
                    \cup {fig.icu_discharge_day, Num(AXIS_FLOOR_DAYS, 1)})

\* A row without a ratio lies after every plotted row, after
\* icu_discharge_day and after day 7, and the axis ends at that row.
C5_Witness ==
    /\ Drawn
    /\ Rows(HasRatio) # {}
    /\ \E i \in 1..Len(patient_ts) :
          LET day == patient_ts[i].days_from_admission
          IN  /\ ~HasRatio(patient_ts[i])
              /\ \A j \in Rows(HasRatio) : FGt(day, patient_ts[j].days_from_admission)
              /\ FGt(day, fig.icu_discharge_day)
              /\ FGt(day, Num(AXIS_FLOOR_DAYS, 1))
              /\ fig.xrange_hi = day

\* A row in which some dose is present and greater than zero.
SomeDosePositive(r) ==
    \E col \in {"cisatracurium_dose", "vecuronium_dose", "rocuronium_dose",
                "atracurium_dose", "pancuronium_dose"} :
        r[col].k = "num" /\ r[col].n > 0

\* C6: NMB Hours is the number of rows with some dose present and positive,
\* and the NMB trace holds one point per such row, in row order, at the
\* row's days_from_admission; with no such row it is 0 and there is no
\* point.
C6_NmbHoursCountsMarkers ==
    Drawn =>
        LET Q == Rows(SomeDosePositive)
        IN  /\ metrics.nmb_hours = Cardinality(Q)
            /\ Len(fig.nmb_markers) = Cardinality(Q)
            /\ \A k \in 1..Len(fig.nmb_markers) :
                  /\ fig.nmb_markers[k].x = patient_ts[Kth(Q, k)].days_from_admission
                  /\ fig.nmb_markers[k].y = Num(NMB_HEIGHT, 1)
            /\ Q = {} => metrics.nmb_hours = 0 /\ fig.nmb_markers = <<>>

\* Two rows of which exactly one has a positive dose, in one column only.
C6_Witness ==
    /\ Drawn
    /\ Len(patient_ts) = 2
    /\ metrics.nmb_hours = 1
    /\ Len(fig.nmb_markers) = 1
    /\ \E i \in 1..2 : /\ patient_ts[i].cisatracurium_dose = Num(0, 1)
                       /\ patient_ts[i].vecuronium_dose = Num(5, 1)

\* The letters of "prone" in either case.
ProneLetters == <<{"p", "P"}, {"r", "R"}, {"o", "O"}, {"n", "N"}, {"e", "E"}>>

\* The indicator equals 1 as a number (a number cell, or text that reads
\* as the number 1), or is the word "prone" in any mix of cases.
ProneIndicator(c) ==
    \/ c.t = "num" /\ c.v.k = "num" /\ c.v.n = c.v.d
    \/ c.t = "text" /\ c.s = <<"1">>
    \/ /\ c.t = "text"
       /\ Len(c.s) = 5
       /\ \A i \in 1..5 : c.s[i] \in ProneLetters[i]

IsProneExample ==
    /\ Len(patient_ts) = 5
    /\ \A i \in 1..5 : patient_ts[i].prone_flag = ProneExampleCells[i]

\* C7: the prone trace holds one point per row whose indicator is 1 or the
\* word "prone" in any case, in row order, at the row's
\* days_from_admission and at height 300, and no other point; for the
\* example column the rows are the first, second and fifth; a missing
\* indicator gives no point.
C7_ProneMarkers ==
    Drawn =>
        LET Q == Rows(LAMBDA r : ProneIndicator(r.prone_flag))
        IN  /\ Len(fig.prone_markers) = Cardinality(Q)
            /\ \A k \in 1..Len(fig.prone_markers) :
                  /\ fig.prone_markers[k].x = patient_ts[Kth(Q, k)].days_from_admission
                  /\ fig.prone_markers[k].y = Num(PRONE_HEIGHT, 1)
            /\ IsProneExample =>
                  /\ Q = {1, 2, 5}
                  /\ Len(fig.prone_markers) = 3
            /\ \A i \in Q : patient_ts[i].prone_flag.t # "null"

\* The example column, drawn with its three prone points.
C7_Witness ==
    /\ Drawn
    /\ IsProneExample
    /\ Len(fig.prone_markers) = 3
    /\ fig.prone_markers[3].x = patient_ts[5].days_from_admission

====
